---- MODULE Spec2Model ----
(***************************************************************************)
(* Model of fileMerger.py: the image feature dataset merger.               *)
(*                                                                         *)
(* The script is one sequential run over a file system: it lists the base  *)
(* folder, loads every CSV file of it, checks that something was loaded,   *)
(* then loads the Haralick and the Haar-like folders depending on two      *)
(* flags, concatenates the loaded tables side by side and writes one file. *)
(*                                                                         *)
(* Python strings are sequences of one-character strings, so that sorting, *)
(* endswith, splitext, replace and slicing are computed as Python computes *)
(* them.  A DataFrame is [columns, nrows, data]: its column names, its     *)
(* number of rows and, standing for its cell values, the path of the file  *)
(* they were read from.                                                    *)
(***************************************************************************)
EXTENDS Integers, Sequences, FiniteSets, TLC

VARIABLES
    dirs,            \* file system: the folders that exist
    files,           \* file system: path -> what pd.read_csv finds there
    merge_haralick,  \* configuration flag (line 86)
    merge_haar,      \* configuration flag (line 87)
    pc,              \* position of the run in the script
    csv_files,       \* line 51
    haralick_files,  \* line 94
    haarfiles,       \* line 122
    i,               \* position of the running for-loop in its list (1-based)
    dfs,             \* line 57: the accumulator of loaded DataFrames
    file_name,       \* line 72
    file_name_h,     \* lines 107 and 136
    stdout,          \* what print() has written, in order
    output,          \* the file written by to_csv (line 163), or NoFile
    exit_status      \* the status of exit() (line 83), or NoStatus

vars == <<dirs, files, merge_haralick, merge_haar, pc, csv_files, haralick_files,
          haarfiles, i, dfs, file_name, file_name_h, stdout, output, exit_status>>

----------------------------------------------------------------------------
(* Bounds of the explored file systems.                                    *)

\* At most this many files exist, over the three folders together.
MaxFiles == 3

\* A CSV file has at most this many data rows.
MaxRows == 2

----------------------------------------------------------------------------
(* String literals of the script.                                          *)

os_sep == <<"/">>

folder_path == <<"2", "k", "y", "r", "_", "n", "e", "w">> \o os_sep

folder_haralick ==
    <<"h", "a", "r", "a", "l", "i", "c", "k", "_", "f", "i", "l", "e", "s">> \o os_sep

folder_haarlike == <<"h", "a", "a", "r", "_", "f", "i", "l", "e", "s">> \o os_sep

dot_csv == <<".", "c", "s", "v">>

suffix_haralick == <<"_", "h", "a", "r", "a", "l", "i", "c", "k">>

suffix_haar == <<"_", "h", "a", "a", "r">>

AllColumns == <<"_", "A", "l", "l", "C", "o", "l", "u", "m", "n", "s">>

AllColumns_imgfeatures ==
    AllColumns \o <<"_", "i", "m", "g", "f", "e", "a", "t", "u", "r", "e", "s">>

AllColumns_onlyHaralick ==
    AllColumns \o <<"_", "o", "n", "l", "y", "H", "a", "r", "a", "l", "i", "c", "k">>

AllColumns_onlyHaar ==
    AllColumns \o <<"_", "o", "n", "l", "y", "H", "a", "a", "r">>

----------------------------------------------------------------------------
(* Python string operations.                                               *)

\* The characters that occur, in increasing code point order.
CodePoints ==
    <<".", "/", "2", "A", "C", "H", "_", "a", "b", "c", "d", "e", "f", "g", "h",
      "i", "k", "l", "m", "n", "o", "r", "s", "t", "u", "v", "w", "x", "y">>

ord(c) == CHOOSE k \in 1..Len(CodePoints) : CodePoints[k] = c

\* s < t for Python strings: the first differing character decides, and a
\* proper prefix is smaller.
RECURSIVE str_lt(_, _)
str_lt(s, t) ==
    IF t = <<>> THEN FALSE
    ELSE IF s = <<>> THEN TRUE
    ELSE IF Head(s) = Head(t) THEN str_lt(Tail(s), Tail(t))
    ELSE ord(Head(s)) < ord(Head(t))

\* s.endswith(suf)
endswith(s, suf) ==
    /\ Len(suf) <= Len(s)
    /\ SubSeq(s, Len(s) - Len(suf) + 1, Len(s)) = suf

\* s.startswith(pre)
startswith(s, pre) ==
    /\ Len(pre) <= Len(s)
    /\ SubSeq(s, 1, Len(pre)) = pre

\* s.replace(old, ""): every non-overlapping occurrence of old, scanned from
\* the left, is removed.
RECURSIVE replace(_, _)
replace(s, old) ==
    IF s = <<>> THEN <<>>
    ELSE IF startswith(s, old) THEN replace(SubSeq(s, Len(old) + 1, Len(s)), old)
    ELSE <<Head(s)>> \o replace(Tail(s), old)

\* os.path.splitext(p)[0] for a name without separator: p is cut at its last
\* dot, unless every character before that dot is a dot too.
splitext(p) ==
    LET dots == {k \in 1..Len(p) : p[k] = "."}
    IN  IF dots = {} THEN p
        ELSE LET dotIndex == CHOOSE k \in dots : \A m \in dots : m <= k
             IN  IF \E k \in 1..(dotIndex - 1) : p[k] # "."
                 THEN SubSeq(p, 1, dotIndex - 1)
                 ELSE p

\* os.path.join(folder, file) for a folder that ends with the separator
join(folder, file) ==
    IF endswith(folder, os_sep) THEN folder \o file ELSE folder \o os_sep \o file

\* Mutant of sorted: decreasing order
RECURSIVE sorted_descending(_)
sorted_descending(S) ==
    IF S = {} THEN <<>>
    ELSE LET greatest == CHOOSE s \in S : \A t \in S \ {s} : str_lt(t, s)
         IN  <<greatest>> \o sorted_descending(S \ {greatest})

\* sorted(S) for a set of distinct strings
RECURSIVE sorted(_)
sorted(S) ==
    IF S = {} THEN <<>>
    ELSE LET least == CHOOSE s \in S : \A t \in S \ {s} : str_lt(s, t)
         IN  <<least>> \o sorted(S \ {least})

----------------------------------------------------------------------------
(* The file system.                                                        *)

Folders == {folder_path, folder_haralick, folder_haarlike}

\* The file names that may occur in each folder, each with the header row its
\* file has.
Pool ==
    { [folder |-> folder_path, name |-> <<"a">> \o dot_csv,
       header |-> << <<"b", "_", "c">>, <<"d">> >>],
      [folder |-> folder_path, name |-> <<"a", "_", "b">> \o dot_csv,
       header |-> << <<"c">> >>],
      [folder |-> folder_path, name |-> <<"n", ".", "t", "x", "t">>,
       header |-> << <<"c">> >>],
      [folder |-> folder_haralick, name |-> <<"a">> \o suffix_haralick \o dot_csv,
       header |-> << <<"h">> >>],
      [folder |-> folder_haralick,
       name |-> <<"a">> \o suffix_haralick \o <<"_", "b">> \o dot_csv,
       header |-> << <<"c">>, <<"h">> >>],
      [folder |-> folder_haarlike, name |-> <<"a">> \o suffix_haar \o dot_csv,
       header |-> << <<"w">>, <<"x">> >>] }

\* What pd.read_csv can find in a file: something it cannot parse, or a header
\* row followed by data rows.
Unparsable == [ok |-> FALSE, header |-> <<>>, nrows |-> 0]

Content(p, n) ==
    IF n < 0 THEN Unparsable ELSE [ok |-> TRUE, header |-> p.header, nrows |-> n]

\* The file systems over a set P of files of the pool: each file is unparsable
\* (-1) or has 0..MaxRows data rows
FileSystems(P) ==
    {[path \in {join(p.folder, p.name) : p \in P} |->
         LET p == CHOOSE q \in P : join(q.folder, q.name) = path
         IN  Content(p, c[p])] : c \in [P -> -1..MaxRows]}

\* Mutant of isdir: the test of the folder is left out
isdir_unchecked(folder) == TRUE

\* os.path.isdir(folder)
isdir(folder) == folder \in dirs

\* os.listdir(folder) raises FileNotFoundError for a folder that does not exist
listdir_raises(folder) == folder \notin dirs

\* os.listdir(folder) otherwise: the names of the files of the folder
listdir(folder) ==
    {p.name : p \in {q \in Pool : q.folder = folder /\ join(folder, q.name) \in DOMAIN files}}

----------------------------------------------------------------------------
(* pandas.                                                                 *)

\* pd.read_csv(path): the DataFrame of the file, or an exception (ok = FALSE)
read_csv(path) == files[path]

\* The DataFrame read_csv returns for a parsable file
DataFrame(r, path) == [columns |-> r.header, nrows |-> r.nrows, data |-> path]

\* Mutant of empty: the test of the table is left out
empty_never(df) == FALSE

\* df.empty: some axis of the DataFrame has length 0
empty(df) == df.nrows = 0 \/ Len(df.columns) = 0

\* [f"{prefix}_{col}" for col in df.columns]
prefixed(prefix, columns) ==
    [k \in 1..Len(columns) |-> prefix \o <<"_">> \o columns[k]]

\* Mutant of concat_nrows: the rows of the first table only (a left join)
concat_nrows_first(tables) ==
    IF tables = <<>> THEN 0 ELSE Head(tables).nrows

\* The index of pd.concat(dfs, axis=1) is the union of the row indexes
\* 0..nrows-1 of the tables: the shorter tables are padded with missing values.
RECURSIVE concat_nrows(_)
concat_nrows(tables) ==
    IF tables = <<>> THEN 0
    ELSE LET rest == concat_nrows(Tail(tables))
         IN  IF Head(tables).nrows > rest THEN Head(tables).nrows ELSE rest

\* The columns of pd.concat(dfs, axis=1): those of the tables, side by side
RECURSIVE concat_columns(_)
concat_columns(tables) ==
    IF tables = <<>> THEN <<>>
    ELSE Head(tables).columns \o concat_columns(Tail(tables))

\* pd.concat(dfs, axis=1)
concat(tables) ==
    [columns |-> concat_columns(tables), nrows |-> concat_nrows(tables)]

----------------------------------------------------------------------------
(* The script.                                                             *)

NoFile == [name |-> <<>>, columns |-> <<>>, nrows |-> 0, written |-> FALSE]

NoStatus == -1

\* Mutant of csv_listing: the filter on the extension is left out
csv_listing_unfiltered(folder) == sorted(listdir(folder))

\* [f for f in os.listdir(folder) if f.endswith('.csv')], sorted
csv_listing(folder) == sorted({f \in listdir(folder) : endswith(f, dot_csv)})

\* Mutant of not_dfs: the check is left out
not_dfs_never(acc) == FALSE

\* "if not dfs" (line 81)
not_dfs(acc) == acc = <<>>

\* Mutant of suffix: the two single-group literals are exchanged
suffix_swapped(haralick, haar) ==
    IF haralick /\ haar THEN AllColumns_imgfeatures
    ELSE IF haralick /\ ~haar THEN AllColumns_onlyHaar
    ELSE IF ~haralick /\ haar THEN AllColumns_onlyHaralick
    ELSE AllColumns

\* The suffix of the output file name (lines 152-159)
suffix(haralick, haar) ==
    IF haralick /\ haar THEN AllColumns_imgfeatures
    ELSE IF haralick /\ ~haar THEN AllColumns_onlyHaralick
    ELSE IF ~haralick /\ haar THEN AllColumns_onlyHaar
    ELSE AllColumns

\* folder_path[:-1] + suffix + '.csv' (line 162)
output_filename(haralick, haar) ==
    SubSeq(folder_path, 1, Len(folder_path) - 1) \o suffix(haralick, haar) \o dot_csv

\* One pass of a loading loop (lines 62-79, 98-114, 127-143) over `file` of
\* `folder`: what is printed, the accumulator afterwards and the prefix
\* computed, if one was.  `first` is the line printed before the file is read,
\* `strip` the text removed from the stem (<<>> for the base folder).
load(folder, file, first, strip, acc) ==
    LET path == join(folder, file)
        r == read_csv(path)
        df == DataFrame(r, path)
        stem == IF strip = <<>> THEN splitext(file) ELSE replace(splitext(file), strip)
    IN  IF ~r.ok
        THEN [dfs |-> acc, named |-> FALSE, prefix |-> <<>>,
              out |-> << <<first, path>>, <<"Error reading file ", file>> >>]
        ELSE IF empty(df)
        THEN [dfs |-> acc, named |-> FALSE, prefix |-> <<>>,
              out |-> << <<first, path>>, <<"The file is empty. Skipping. ", file>> >>]
        ELSE [dfs |-> Append(acc, [df EXCEPT !.columns = prefixed(stem, df.columns)]),
              named |-> TRUE, prefix |-> stem,
              out |-> << <<first, path>> >>]

Init ==
    /\ merge_haralick \in BOOLEAN
    /\ merge_haar \in BOOLEAN
    /\ \E P \in SUBSET Pool :
         /\ Cardinality(P) <= MaxFiles
         /\ files \in FileSystems(P)
         /\ dirs \in {D \in SUBSET Folders : {p.folder : p \in P} \subseteq D}
    /\ pc = "list_base"
    /\ csv_files = <<>>
    /\ haralick_files = <<>>
    /\ haarfiles = <<>>
    /\ i = 1
    /\ dfs = <<>>
    /\ file_name = <<>>
    /\ file_name_h = <<>>
    /\ stdout = <<>>
    /\ output = NoFile
    /\ exit_status = NoStatus

\* Lines 51-57: the base folder is listed; a missing folder is an uncaught
\* FileNotFoundError, which ends the interpreter with status 1.
ListBase ==
    /\ pc = "list_base"
    /\ IF listdir_raises(folder_path)
       THEN /\ pc' = "crashed"
            /\ UNCHANGED <<csv_files, stdout>>
       ELSE /\ csv_files' = csv_listing(folder_path)
            /\ stdout' = IF csv_files' = <<>>
                         THEN Append(stdout, <<"No CSV files found in the specified folder.", <<>> >>)
                         ELSE stdout
            /\ pc' = IF csv_files' = <<>> THEN "check" ELSE "base_loop"
    /\ i' = 1
    /\ exit_status' = IF pc' = "crashed" THEN 1 ELSE exit_status
    /\ UNCHANGED <<dirs, files, merge_haralick, merge_haar, haralick_files, haarfiles,
                   dfs, file_name, file_name_h, output>>

\* Lines 60-79: one pass of the loop over csv_files
LoadBaseFile ==
    /\ pc = "base_loop"
    /\ LET got == load(folder_path, csv_files[i], "Merging: ", <<>>, dfs)
       IN  /\ dfs' = got.dfs
           /\ file_name' = IF got.named THEN got.prefix ELSE file_name
           /\ stdout' = stdout \o got.out
    /\ i' = i + 1
    /\ pc' = IF i = Len(csv_files) THEN "check" ELSE "base_loop"
    /\ UNCHANGED <<dirs, files, merge_haralick, merge_haar, csv_files, haralick_files,
                   haarfiles, file_name_h, output, exit_status>>

\* Lines 81-83: exit(1) when nothing was loaded
CheckDfs ==
    /\ pc = "check"
    /\ IF not_dfs(dfs)
       THEN /\ stdout' = Append(stdout, <<"No valid DataFrames to merge.", <<>> >>)
            /\ exit_status' = 1
            /\ pc' = "exited"
       ELSE /\ pc' = "haralick"
            /\ UNCHANGED <<stdout, exit_status>>
    /\ UNCHANGED <<dirs, files, merge_haralick, merge_haar, csv_files, haralick_files,
                   haarfiles, i, dfs, file_name, file_name_h, output>>

\* Lines 92-95 and 116-117: the Haralick folder is listed, if it is wanted and
\* it exists
EnterHaralick ==
    /\ pc = "haralick"
    /\ IF merge_haralick
       THEN IF isdir(folder_haralick)
            THEN IF listdir_raises(folder_haralick)
                 THEN /\ pc' = "crashed"
                      /\ UNCHANGED <<haralick_files, stdout>>
                 ELSE /\ haralick_files' = csv_listing(folder_haralick)
                      /\ stdout' = Append(stdout, <<"Merging Haralick files...", <<>> >>)
                      /\ pc' = IF haralick_files' = <<>> THEN "haar" ELSE "haralick_loop"
            ELSE /\ stdout' = Append(stdout, <<"No directory found for Haralick features", <<>> >>)
                 /\ pc' = "haar"
                 /\ UNCHANGED haralick_files
       ELSE /\ pc' = "haar"
            /\ UNCHANGED <<haralick_files, stdout>>
    /\ i' = 1
    /\ exit_status' = IF pc' = "crashed" THEN 1 ELSE exit_status
    /\ UNCHANGED <<dirs, files, merge_haralick, merge_haar, csv_files, haarfiles,
                   dfs, file_name, file_name_h, output>>

\* Lines 97-114: one pass of the loop over haralick_files
LoadHaralickFile ==
    /\ pc = "haralick_loop"
    /\ LET got == load(folder_haralick, haralick_files[i], "Adding: ", suffix_haralick, dfs)
       IN  /\ dfs' = got.dfs
           /\ file_name_h' = IF got.named THEN got.prefix ELSE file_name_h
           /\ stdout' = stdout \o got.out
    /\ i' = i + 1
    /\ pc' = IF i = Len(haralick_files) THEN "haar" ELSE "haralick_loop"
    /\ UNCHANGED <<dirs, files, merge_haralick, merge_haar, csv_files, haralick_files,
                   haarfiles, file_name, output, exit_status>>

\* Lines 120-123 and 144-145: the Haar-like folder is listed, if it is wanted
\* and it exists
EnterHaar ==
    /\ pc = "haar"
    /\ IF merge_haar
       THEN IF isdir(folder_haarlike)
            THEN IF listdir_raises(folder_haarlike)
                 THEN /\ pc' = "crashed"
                      /\ UNCHANGED <<haarfiles, stdout>>
                 ELSE /\ haarfiles' = csv_listing(folder_haarlike)
                      /\ stdout' = Append(stdout, <<"Merging Haar-like files...", <<>> >>)
                      /\ pc' = IF haarfiles' = <<>> THEN "concat" ELSE "haar_loop"
            ELSE /\ stdout' = Append(stdout, <<"No directory found for Haar-like features", <<>> >>)
                 /\ pc' = "concat"
                 /\ UNCHANGED haarfiles
       ELSE /\ pc' = "concat"
            /\ UNCHANGED <<haarfiles, stdout>>
    /\ i' = 1
    /\ exit_status' = IF pc' = "crashed" THEN 1 ELSE exit_status
    /\ UNCHANGED <<dirs, files, merge_haralick, merge_haar, csv_files, haralick_files,
                   dfs, file_name, file_name_h, output>>

\* Lines 124-143: one pass of the loop over haarfiles
LoadHaarFile ==
    /\ pc = "haar_loop"
    /\ LET got == load(folder_haarlike, haarfiles[i], "Adding: ", suffix_haar, dfs)
       IN  /\ dfs' = got.dfs
           /\ file_name_h' = IF got.named THEN got.prefix ELSE file_name_h
           /\ stdout' = stdout \o got.out
    /\ i' = i + 1
    /\ pc' = IF i = Len(haarfiles) THEN "concat" ELSE "haar_loop"
    /\ UNCHANGED <<dirs, files, merge_haralick, merge_haar, csv_files, haralick_files,
                   haarfiles, file_name, output, exit_status>>

\* Lines 148-165: the tables are concatenated and written; pd.concat raises
\* ValueError for an empty list
ConcatAndWrite ==
    /\ pc = "concat"
    /\ IF dfs = <<>>
       THEN /\ stdout' = Append(stdout, <<"Saving Final Dataset...", <<>> >>)
            /\ pc' = "crashed"
            /\ exit_status' = 1
            /\ UNCHANGED output
       ELSE /\ LET merged_df == concat(dfs)
               IN  output' = [name |-> output_filename(merge_haralick, merge_haar),
                              columns |-> merged_df.columns,
                              nrows |-> merged_df.nrows,
                              written |-> TRUE]
            /\ stdout' = stdout \o << <<"Saving Final Dataset...", <<>> >>,
                                      <<"CSV files merged successfully!", <<>> >> >>
            /\ pc' = "done"
            /\ exit_status' = 0
    /\ UNCHANGED <<dirs, files, merge_haralick, merge_haar, csv_files, haralick_files,
                   haarfiles, i, dfs, file_name, file_name_h>>

Next ==
    \/ ListBase
    \/ LoadBaseFile
    \/ CheckDfs
    \/ EnterHaralick
    \/ LoadHaralickFile
    \/ EnterHaar
    \/ LoadHaarFile
    \/ ConcatAndWrite

Spec == Init /\ [][Next]_vars

----------------------------------------------------------------------------
(* Vocabulary of the properties.                                           *)

\* The run has ended: normally, by exit(), or by an uncaught exception
Terminal == pc \in {"done", "exited", "crashed"}

\* The folder a path lies in
FolderOf(path) == CHOOSE folder \in Folders : startswith(path, folder)

\* The file name of a path
NameOf(path) == SubSeq(path, Len(FolderOf(path)) + 1, Len(path))

\* The paths of the files of a folder whose name ends in .csv
CsvPaths(folder) ==
    {path \in DOMAIN files : FolderOf(path) = folder /\ endswith(path, dot_csv)}

\* A file with a header row and no data row
HeaderOnly(path) == files[path].ok /\ files[path].nrows = 0

\* The CSV files of a folder that parse and have at least one data row
Usable(folder) ==
    {path \in CsvPaths(folder) : files[path].ok /\ files[path].nrows > 0}

\* The folders the flags ask for
Wanted ==
    {folder_path} \cup (IF merge_haralick THEN {folder_haralick} ELSE {})
                  \cup (IF merge_haar THEN {folder_haarlike} ELSE {})

\* Position of a folder in the order of the groups
GroupOf(path) ==
    IF FolderOf(path) = folder_path THEN 1
    ELSE IF FolderOf(path) = folder_haralick THEN 2 ELSE 3

\* The paths of the files the print() calls before read_csv have named
Attempted ==
    {stdout[k][2] : k \in {m \in DOMAIN stdout : stdout[m][1] \in {"Merging: ", "Adding: "}}}

\* The fixed lines that were printed
Printed == {stdout[k][1] : k \in DOMAIN stdout}

\* s without suf at its end, if it ends with it
StripTrailing(s, suf) ==
    IF endswith(s, suf) THEN SubSeq(s, 1, Len(s) - Len(suf)) ELSE s

\* The identifier the specification gives a loaded file: its stem, without the
\* trailing suffix of its group
Identifier(path) ==
    LET stem == SubSeq(NameOf(path), 1, Len(NameOf(path)) - Len(dot_csv))
    IN  IF GroupOf(path) = 1 THEN stem
        ELSE IF GroupOf(path) = 2 THEN StripTrailing(stem, suffix_haralick)
        ELSE StripTrailing(stem, suffix_haar)

\* The stem of the file of a path, as the script computes it
file_name_of(path) == splitext(NameOf(path))

RECURSIVE SumWidths(_)
SumWidths(tables) ==
    IF tables = <<>> THEN 0 ELSE Len(Head(tables).columns) + SumWidths(Tail(tables))

PairwiseDistinct(seq) ==
    \A j, k \in DOMAIN seq : j # k => seq[j] # seq[k]

----------------------------------------------------------------------------
(* C1.  The empty-accumulator check.                                       *)

\* C1, as claimed: the run exits with a non-zero status and writes no output
\* file if and only if no table could be accumulated from any wanted folder
\* (base, Haralick if merge_haralick, Haar if merge_haar).
C1_CheckAfterAllFolders ==
    pc \in {"done", "exited"} =>
        ((exit_status > 0 /\ ~output.written)
            <=> (\A folder \in Wanted : Usable(folder) = {}))

\* C1, amended: the check is made after the base folder alone.  The run exits
\* with a non-zero status and writes no output file if and only if no table
\* was accumulated from the base folder, and then the optional folders are
\* never looked at; past the check the accumulator holds a base table.
C1_CheckAfterBaseOnly ==
    /\ pc \in {"done", "exited"} =>
          ((exit_status > 0 /\ ~output.written) <=> Usable(folder_path) = {})
    /\ pc = "exited" =>
          /\ Printed \cap {"Merging Haralick files...", "Merging Haar-like files...",
                           "No directory found for Haralick features",
                           "No directory found for Haar-like features"} = {}
          /\ \A path \in Attempted : FolderOf(path) = folder_path
    /\ pc \in {"haralick", "haralick_loop", "haar", "haar_loop", "concat", "done"} =>
          /\ dfs # <<>>
          /\ FolderOf(dfs[1].data) = folder_path

\* C1, witness: the run has exited although a wanted Haralick folder holds a
\* usable file
C1_Witness ==
    /\ pc = "exited"
    /\ folder_path \in dirs
    /\ merge_haralick
    /\ Usable(folder_haralick) # {}

----------------------------------------------------------------------------
(* C2.  A base folder without CSV files.                                   *)

BaseHasNoCsv == folder_path \in dirs /\ CsvPaths(folder_path) = {}

\* C2: if the base folder exists and holds no file ending in .csv, then,
\* whatever the flags and the optional folders, the run never writes the
\* output file, never gets past the check, goes on until it has exited, and
\* exits with a non-zero status.
C2_NoCsvInBase ==
    BaseHasNoCsv =>
        /\ ~output.written
        /\ pc \in {"list_base", "check", "exited"}
        /\ pc = "exited" => exit_status > 0
        /\ pc = "list_base" => ENABLED ListBase
        /\ pc = "check" => ENABLED CheckDfs

\* C2, witness: the run has exited on a base folder that holds a file, not a
\* CSV file, while the wanted Haar folder holds a usable file
C2_Witness ==
    /\ BaseHasNoCsv
    /\ pc = "exited"
    /\ \E path \in DOMAIN files : FolderOf(path) = folder_path
    /\ merge_haar
    /\ Usable(folder_haarlike) # {}

----------------------------------------------------------------------------
(* C3.  The order of the concatenated tables.                              *)

\* C3: in a run that writes output, the tables handed to the concatenation are
\* the usable files of the wanted folders, each once; a table of a later group
\* never precedes one of an earlier group, and within a group the tables are
\* in increasing file name order.
C3_ConcatOrder ==
    output.written =>
        /\ {dfs[k].data : k \in DOMAIN dfs} = UNION {Usable(folder) : folder \in Wanted}
        /\ \A j, k \in DOMAIN dfs :
              j < k =>
                 \/ GroupOf(dfs[j].data) < GroupOf(dfs[k].data)
                 \/ /\ GroupOf(dfs[j].data) = GroupOf(dfs[k].data)
                    /\ str_lt(NameOf(dfs[j].data), NameOf(dfs[k].data))

\* C3, witness: output was written from two base tables followed by a table of
\* an optional group
C3_Witness ==
    /\ output.written
    /\ Len(dfs) = 3
    /\ GroupOf(dfs[1].data) = 1
    /\ GroupOf(dfs[2].data) = 1
    /\ GroupOf(dfs[3].data) > 1

----------------------------------------------------------------------------
(* C4.  The identifier of a Haralick or Haar file.                         *)

\* C4, as claimed: every column of a table loaded from the Haralick (Haar)
\* folder is prefixed with the stem of its file without the single trailing
\* _haralick (_haar), or with the unchanged stem if it does not end so; the
\* suffix text in the middle of a stem is kept.
C4_TrailingSuffixOnly ==
    \A k \in DOMAIN dfs :
        GroupOf(dfs[k].data) > 1 =>
            dfs[k].columns = [c \in DOMAIN files[dfs[k].data].header |->
                                Identifier(dfs[k].data) \o <<"_">>
                                    \o files[dfs[k].data].header[c]]

----------------------------------------------------------------------------
(* C5.  The name of the output file.                                       *)

----------------------------------------------------------------------------
(* C6.  The suffix and the groups that were merged.                        *)

HaralickMarked(name) ==
    \/ endswith(name, AllColumns_onlyHaralick \o dot_csv)
    \/ endswith(name, AllColumns_imgfeatures \o dot_csv)

HaarMarked(name) ==
    \/ endswith(name, AllColumns_onlyHaar \o dot_csv)
    \/ endswith(name, AllColumns_imgfeatures \o dot_csv)

\* C6, as claimed: the name of the written file carries the Haralick marker
\* only if a Haralick table is part of the merge, and the Haar marker only if
\* a Haar table is part of the merge.
C6_SuffixTellsWhatWasMerged ==
    output.written =>
        /\ HaralickMarked(output.name) =>
              \E k \in DOMAIN dfs : FolderOf(dfs[k].data) = folder_haralick
        /\ HaarMarked(output.name) =>
              \E k \in DOMAIN dfs : FolderOf(dfs[k].data) = folder_haarlike

----------------------------------------------------------------------------
(* C7.  Where a run can end.                                               *)

\* The statement the run is at can be executed: a loop is at an element of its
\* list, and any other statement is enabled
StepEnabled ==
    CASE pc = "list_base" -> ENABLED ListBase
      [] pc = "base_loop" -> i \in DOMAIN csv_files
      [] pc = "check" -> ENABLED CheckDfs
      [] pc = "haralick" -> ENABLED EnterHaralick
      [] pc = "haralick_loop" -> i \in DOMAIN haralick_files
      [] pc = "haar" -> ENABLED EnterHaar
      [] pc = "haar_loop" -> i \in DOMAIN haarfiles
      [] pc = "concat" -> ENABLED ConcatAndWrite
      [] OTHER -> FALSE

\* C7: a run ends without output only by the uncaught error of a missing base
\* folder, before anything else happened, or by the exit on an empty
\* accumulator, after every CSV file of the base folder was tried; it never
\* stops elsewhere.  A file that does not parse contributes no table, a
\* missing wanted folder is reported and skipped, and a run that writes output
\* has tried every CSV file of every wanted folder that exists.
C7_OnlyTwoEndings ==
    /\ pc = "crashed" => folder_path \notin dirs /\ stdout = <<>> /\ dfs = <<>>
    /\ pc = "exited" =>
          /\ dfs = <<>>
          /\ exit_status = 1
          /\ Attempted = CsvPaths(folder_path)
    /\ ~Terminal => StepEnabled
    /\ \A k \in DOMAIN dfs : files[dfs[k].data].ok
    /\ pc = "done" =>
          /\ output.written
          /\ Attempted = UNION {CsvPaths(folder) : folder \in Wanted}
          /\ \A path \in Attempted :
                files[path].ok /\ files[path].nrows > 0 =>
                    \E k \in DOMAIN dfs : dfs[k].data = path
          /\ merge_haralick =>
                IF folder_haralick \in dirs
                THEN "Merging Haralick files..." \in Printed
                ELSE "No directory found for Haralick features" \in Printed
          /\ merge_haar =>
                IF folder_haarlike \in dirs
                THEN "Merging Haar-like files..." \in Printed
                ELSE "No directory found for Haar-like features" \in Printed

\* C7, witness: output was written although a base file did not parse and the
\* wanted Haralick folder is missing; the Haar folder, after it, gave a table
C7_Witness ==
    /\ pc = "done"
    /\ \E path \in CsvPaths(folder_path) : ~files[path].ok
    /\ merge_haralick
    /\ folder_haralick \notin dirs
    /\ merge_haar
    /\ \E k \in DOMAIN dfs : FolderOf(dfs[k].data) = folder_haarlike

----------------------------------------------------------------------------
(* C8.  Files with a header and no data row.                               *)

\* The file system without its header-only files
WithoutHeaderOnly == {path \in DOMAIN files : ~HeaderOnly(path)}

\* The files a run over the file system without its header-only files loads
ParsableIn(folder) ==
    {path \in WithoutHeaderOnly :
        FolderOf(path) = folder /\ endswith(path, dot_csv) /\ files[path].ok}

RECURSIVE InOrder(_)
InOrder(S) ==
    IF S = {} THEN <<>>
    ELSE LET first == CHOOSE s \in S :
                         \A t \in S \ {s} :
                            \/ GroupOf(s) < GroupOf(t)
                            \/ GroupOf(s) = GroupOf(t) /\ str_lt(NameOf(s), NameOf(t))
         IN  <<first>> \o InOrder(S \ {first})

\* C8: a header-only file contributes no table and no column, and the run
\* ends as it ends on the file system without the header-only files: it exits
\* exactly if the base folder has no other parsable CSV file, and otherwise
\* it merges the other parsable files of the wanted folders, in order, into a
\* table as wide as their headers together.
C8_HeaderOnlyFilesAreIgnored ==
    /\ \A k \in DOMAIN dfs : ~HeaderOnly(dfs[k].data)
    /\ pc \in {"done", "exited"} =>
          /\ pc = "exited" <=> ParsableIn(folder_path) = {}
          /\ pc = "done" =>
                LET loaded == InOrder(UNION {ParsableIn(folder) : folder \in Wanted})
                IN  /\ [k \in DOMAIN dfs |-> dfs[k].data] = loaded
                    /\ Len(output.columns) =
                          SumWidths([k \in DOMAIN loaded |->
                                       [columns |-> files[loaded[k]].header]])

\* C8, witness: output was written from a base folder whose first CSV file is
\* header-only and from a wanted optional folder that holds a header-only file
C8_Witness ==
    /\ pc = "done"
    /\ HeaderOnly(join(folder_path, csv_files[1]))
    /\ \E folder \in Wanted \ {folder_path} : \E path \in CsvPaths(folder) : HeaderOnly(path)

----------------------------------------------------------------------------
(* C9.  The names of the merged columns.                                   *)

\* C9, as claimed: every merged column is named <identifier>_<original name>,
\* and if the loaded tables have pairwise distinct identifiers (and each file
\* distinct column names) the merged column names are pairwise distinct.
C9_DistinctIdentifiersDistinctColumns ==
    output.written =>
        LET identifier == [k \in DOMAIN dfs |->
                             IF GroupOf(dfs[k].data) = 1 THEN file_name_of(dfs[k].data)
                             ELSE IF GroupOf(dfs[k].data) = 2
                             THEN replace(file_name_of(dfs[k].data), suffix_haralick)
                             ELSE replace(file_name_of(dfs[k].data), suffix_haar)]
        IN  /\ \A k \in DOMAIN dfs :
                  dfs[k].columns = prefixed(identifier[k], files[dfs[k].data].header)
            /\ (/\ PairwiseDistinct(identifier)
                /\ \A k \in DOMAIN dfs : PairwiseDistinct(files[dfs[k].data].header))
               => PairwiseDistinct(output.columns)

----------------------------------------------------------------------------
(* C10.  The shape of the merged table.                                    *)

\* C10, as claimed: the merged table is as wide as the loaded tables together
\* and as high as the first loaded table.
C10_HeightOfFirstTable ==
    output.written =>
        /\ Len(output.columns) = SumWidths(dfs)
        /\ output.nrows = dfs[1].nrows

\* C10, amended: the merged table is as wide as the loaded tables together
\* and as high as the highest loaded table (shorter tables are padded); tables
\* of different row counts do not make the run fail.
C10_HeightOfHighestTable ==
    /\ output.written =>
          /\ Len(output.columns) = SumWidths(dfs)
          /\ \A k \in DOMAIN dfs : dfs[k].nrows <= output.nrows
          /\ \E k \in DOMAIN dfs : dfs[k].nrows = output.nrows
    /\ pc = "crashed" => dfs = <<>>

\* C10, witness: output was written from a first table with fewer rows than
\* the second
C10_Witness ==
    /\ output.written
    /\ Len(dfs) >= 2
    /\ dfs[1].nrows < dfs[2].nrows

====
